---- MODULE Spec2Model ----
(***************************************************************************)
(* Subnet Coordinator Actor (SCA) of the hierarchical consensus: subnet    *)
(* registry, checkpoint commitment and cross-net message bookkeeping.      *)
(* Amounts are in model units of 1e18/2 attoFIL: MinSubnetStake is 2.      *)
(***************************************************************************)
EXTENDS Integers, Sequences, FiniteSets, TLC

VARIABLES subnets, totalSubnets, checkPeriod, checkpoints, checkMsgsRegistry,
          nonce, bottomUpNonce, bottomUpMsgsMeta,
          appliedBottomUpNonce, appliedTopDownNonce,
          balance, curEpoch, last,
          saMiners, saCheckpoints, windowChecks, forwarded

vars == <<subnets, totalSubnets, checkPeriod, checkpoints, checkMsgsRegistry,
          nonce, bottomUpNonce, bottomUpMsgsMeta,
          appliedBottomUpNonce, appliedTopDownNonce,
          balance, curEpoch, last,
          saMiners, saCheckpoints, windowChecks, forwarded>>

scaState == <<subnets, totalSubnets, checkPeriod, checkpoints, checkMsgsRegistry,
              nonce, bottomUpNonce, bottomUpMsgsMeta,
              appliedBottomUpNonce, appliedTopDownNonce>>

\* SubnetState of the subnet actor: Miners, Checkpoints and WindowChecks, and
\* the checkpoints that the actor has sent to the coordinator
saState == <<saMiners, saCheckpoints, windowChecks, forwarded>>

(***************************************************************************)
(* Bounds of the model.                                                    *)
(***************************************************************************)
MaxStake == 6
MaxCirc == 2
MaxRegistrations == 2
MaxCommits == 2
MaxReleases == 1
MaxApplied == 2
MaxEpoch == 10
MaxWindowEpoch == 25
WindowStep == 5
EpochStep == 10

(***************************************************************************)
(* Program constants.                                                      *)
(***************************************************************************)
MinSubnetStake == 2
DefaultCheckpointPeriod == 10
MinCheckpointPeriod == 10
NonceBits == 4
MaxNonce == 2 ^ NonceBits - 1

\* Exit codes
OK == "OK"
ErrIllegalArgument == "IllegalArgument"
ErrIllegalState == "IllegalState"
ErrForbidden == "Forbidden"
SysErrForbidden == "SysErrForbidden"

\* Subnet status
Active == "Active"
Inactive == "Inactive"
Killed == "Killed"

\* Actors of the parent chain: subnet actors and accounts
SubnetActors == {"sa1", "sa2"}
Accounts == {"acc"}
Callers == SubnetActors \cup Accounts
BurntFundsActorAddr == "burnt"

\* Caller type validation of the runtime
IsSubnetActor(caller) == caller \in SubnetActors
IsAccountActor(caller) == caller \in Accounts

(***************************************************************************)
(* SubnetID: a path of addresses from the root.                            *)
(***************************************************************************)
NetworkName == <<"root", "net">>
NewSubnetID(parent, addr) == Append(parent, addr)
Parent(id) == IF Len(id) = 0 THEN id ELSE SubSeq(id, 1, Len(id) - 1)
\* SubnetID.Actor: the last element; an error for the empty path
ActorOk(id) == Len(id) > 0
Actor(id) == id[Len(id)]

\* Maps (HAMT) as functions with a finite domain
Put(f, k, v) == [x \in DOMAIN f \cup {k} |-> IF x = k THEN v ELSE f[x]]
Delete(f, k) == [x \in DOMAIN f \ {k} |-> f[x]]
EmptyMap == [x \in {} |-> 0]

(***************************************************************************)
(* Checkpoints.                                                            *)
(***************************************************************************)
NoPreviousCheck == <<"nocid">>

\* The content address of a value
CidOf(x) == <<"cid", x>>

\* Faulty variant: the signature is part of what is hashed
CidWithSignature(c) == CidOf(c)
\* Checkpoint.Cid: computed from the data, without the signature
Cid(c) == CidOf([data |-> c.data, signature |-> <<>>])

NewRawCheckpoint(source, epoch) ==
    [data |-> [source |-> source, tipset |-> <<>>, epoch |-> epoch,
               prevCheckpoint |-> NoPreviousCheck, children |-> <<>>,
               crossMsgs |-> <<>>],
     signature |-> <<>>]

EmptyCheckpoint == NewRawCheckpoint(<<>>, 0)

Equals(c, ch) == Cid(c) = Cid(ch)
IsEmpty(c) == Equals(c, EmptyCheckpoint)
PreviousCheck(c) == c.data.prevCheckpoint
CrossMsgs(c) == c.data.crossMsgs

\* types.WindowEpoch and types.CheckpointEpoch
WindowEpoch(epoch, period) == (epoch \div period) * period
CheckpointEpoch(epoch, period) == ((epoch \div period) - 1) * period

\* Faulty variant: the signature is not encoded
MarshalCBORUnsigned(c) ==
    <<"Checkpoint",
      <<c.data.source, c.data.tipset, c.data.epoch, c.data.prevCheckpoint,
        c.data.children, c.data.crossMsgs>>,
      <<>>>>
\* Checkpoint.MarshalCBOR: the fields in schema order
MarshalCBOR(c) ==
    <<"Checkpoint",
      <<c.data.source, c.data.tipset, c.data.epoch, c.data.prevCheckpoint,
        c.data.children, c.data.crossMsgs>>,
      c.signature>>

\* Checkpoint.UnmarshalCBOR: an error unless the bytes hold a Checkpoint node
UnmarshalOk(b) == Len(b) = 3 /\ b[1] = "Checkpoint"
UnmarshalCBOR(b) ==
    [data |-> [source |-> b[2][1], tipset |-> b[2][2], epoch |-> b[2][3],
               prevCheckpoint |-> b[2][4], children |-> b[2][5],
               crossMsgs |-> b[2][6]],
     signature |-> b[3]]

\* Checkpoint.AddChild: the child's Cid under the entry of its source
HasChildCheck(c, source) ==
    LET hit == {i \in 1..Len(c.data.children) : c.data.children[i].source = source}
    IN  IF hit = {} THEN 0 ELSE CHOOSE i \in hit : \A j \in hit : i <= j

AddChild(c, child) ==
    LET ind == HasChildCheck(c, child.data.source)
        chs == c.data.children
    IN  IF ind > 0
        THEN [c EXCEPT !.data.children[ind].checks = Append(@, Cid(child))]
        ELSE [c EXCEPT !.data.children =
                 Append(chs, [source |-> child.data.source, checks |-> <<Cid(child)>>])]

\* Checkpoint.AddChildChecks: each child replaces the entry of its source,
\* if there is one, and is appended to the list in either case
RECURSIVE AddChildChecks(_, _)
AddChildChecks(c, childs) ==
    IF childs = <<>> THEN c
    ELSE LET ch == Head(childs)
             ind == HasChildCheck(c, ch.source)
             replaced == IF ind > 0 THEN [c EXCEPT !.data.children[ind] = ch] ELSE c
             appended == [replaced EXCEPT !.data.children = Append(@, ch)]
         IN  AddChildChecks(appended, Tail(childs))

\* ChildCheck: the entry of the children list for the checkpoint child
ChildCheck(child) == [source |-> child.data.source, checks |-> <<Cid(child)>>]

(***************************************************************************)
(* Cross-net messages.                                                     *)
(***************************************************************************)
NextNonce(n) == (n + 1) % (MaxNonce + 1)

\* CrossMsgs bundle of the registry, and a message of it
Bundle(msgs, metas) == [msgs |-> msgs, metas |-> metas]
Msg(from, to, value, n) == [from |-> from, to |-> to, value |-> value, nonce |-> n]

RECURSIVE SumValues(_)
SumValues(metas) ==
    IF metas = <<>> THEN 0 ELSE Head(metas).value + SumValues(Tail(metas))

\* SCAState.storeDownTopMsgMeta on bu = [nonce, metas]
storeDownTopMsgMeta(bu, mm) ==
    [nonce |-> NextNonce(bu.nonce),
     metas |-> Append(bu.metas, [mm EXCEPT !.nonce = bu.nonce])]

\* Faulty variant: a second meta for a destination replaces the first
RECURSIVE SplitCheckMsgsKeepLast(_, _, _)
SplitCheckMsgsKeepLast(metas, bu, aux) ==
    IF metas = <<>>
    THEN [bu |-> bu, aux |-> aux]
    ELSE LET mm == Head(metas)
         IN  IF mm.to = NetworkName
             THEN SplitCheckMsgsKeepLast(Tail(metas), storeDownTopMsgMeta(bu, mm), aux)
             ELSE SplitCheckMsgsKeepLast(Tail(metas), bu, Put(aux, mm.to, <<mm>>))

\* The loop of applyCheckMsgs: metas for this subnet are stored, the others
\* are grouped by destination in aux
RECURSIVE SplitCheckMsgs(_, _, _)
SplitCheckMsgs(metas, bu, aux) ==
    IF metas = <<>>
    THEN [bu |-> bu, aux |-> aux]
    ELSE LET mm == Head(metas)
         IN  IF mm.to = NetworkName
             THEN SplitCheckMsgs(Tail(metas), storeDownTopMsgMeta(bu, mm), aux)
             ELSE SplitCheckMsgs(Tail(metas), bu,
                      Put(aux, mm.to, IF mm.to \in DOMAIN aux
                                      THEN Append(aux[mm.to], mm)
                                      ELSE <<mm>>))

\* Checkpoint.CrossMsgMeta: index of the meta from/to in the checkpoint, or 0
CrossMsgMetaIndex(c, from, to) ==
    LET ms == c.data.crossMsgs
        hit == {i \in 1..Len(ms) : ms[i].from = from /\ ms[i].to = to}
    IN  IF hit = {} THEN 0 ELSE CHOOSE i \in hit : \A j \in hit : i <= j

\* Faulty variant: a new meta is appended also when one exists
aggOneAppend(acc, to, mm) ==
    LET b == Bundle(<<>>, mm)
    IN  [ch |-> [acc.ch EXCEPT !.data.crossMsgs =
                    Append(@, [from |-> NetworkName, to |-> to,
                               msgsCid |-> CidOf(b), nonce |-> 0,
                               value |-> SumValues(mm)])],
         reg |-> Put(acc.reg, CidOf(b), b)]

\* One step of aggChildMsgMeta on acc = [ch, reg]: the metas mm for
\* destination to are merged into the meta of the window checkpoint
aggOne(acc, to, mm) ==
    LET ind == CrossMsgMetaIndex(acc.ch, NetworkName, to)
    IN  IF ind > 0
        THEN LET old == acc.ch.data.crossMsgs[ind]
                 prev == acc.reg[old.msgsCid]
                 b == Bundle(prev.msgs, prev.metas \o mm)
             IN  [ch |-> [acc.ch EXCEPT !.data.crossMsgs[ind] =
                             [old EXCEPT !.msgsCid = CidOf(b),
                                         !.value = old.value + SumValues(mm)]],
                  reg |-> Put(acc.reg, CidOf(b), b)]
        ELSE LET b == Bundle(<<>>, mm)
             IN  [ch |-> [acc.ch EXCEPT !.data.crossMsgs =
                             Append(@, [from |-> NetworkName, to |-> to,
                                        msgsCid |-> CidOf(b), nonce |-> 0,
                                        value |-> SumValues(mm)])],
                  reg |-> Put(acc.reg, CidOf(b), b)]

\* SCAState.aggChildMsgMeta: aux is ranged over in the order of the map
RECURSIVE aggChildMsgMeta(_, _, _)
aggChildMsgMeta(acc, aux, order) ==
    IF order = <<>>
    THEN acc
    ELSE aggChildMsgMeta(aggOne(acc, Head(order), aux[Head(order)]), aux, Tail(order))

\* The orders in which a map with keys S can be ranged over
Orders(S) ==
    {s \in [1..Cardinality(S) -> S] : \A i, j \in 1..Cardinality(S) : i # j => s[i] # s[j]}

\* SCAState.applyCheckMsgs
applyCheckMsgs(windowCh, childCh, order) ==
    LET split == SplitCheckMsgs(CrossMsgs(childCh),
                                [nonce |-> bottomUpNonce, metas |-> bottomUpMsgsMeta],
                                EmptyMap)
        agg == aggChildMsgMeta([ch |-> windowCh, reg |-> checkMsgsRegistry],
                               split.aux, order)
    IN  [bu |-> split.bu, ch |-> agg.ch, reg |-> agg.reg]

AuxOf(childCh) ==
    SplitCheckMsgs(CrossMsgs(childCh), [nonce |-> 0, metas |-> <<>>], EmptyMap).aux

(***************************************************************************)
(* SCA state.                                                              *)
(***************************************************************************)
\* ConstructSCAState: really small checkpoint periods are not allowed
ConstructPeriod(p) == IF p < MinCheckpointPeriod THEN DefaultCheckpointPeriod ELSE p

PeriodParams == {5, 10}

\* What the caller of the last message got back: the exit code and the abort
\* message, the amount sent to the caller, and for a successful
\* CommitChildCheckpoint the params it carried
Receipt(op, caller, code, msg, sent, arg) ==
    [op |-> op, caller |-> caller, code |-> code, msg |-> msg, sent |-> sent,
     arg |-> arg]
Outcome(op, caller, code, msg, sent) == Receipt(op, caller, code, msg, sent, <<>>)

\* ConstructSubnetState: no miners, no checkpoints and no votes
SAInit ==
    /\ saMiners = <<>>
    /\ saCheckpoints = EmptyMap
    /\ windowChecks = EmptyMap
    /\ forwarded = <<>>

\* Faulty variant: the applied bottom-up nonce starts at zero
InitAppliedZero ==
    /\ subnets = EmptyMap
    /\ totalSubnets = 0
    /\ \E p \in PeriodParams : checkPeriod = ConstructPeriod(p)
    /\ checkpoints = EmptyMap
    /\ checkMsgsRegistry = EmptyMap
    /\ nonce = 0
    /\ bottomUpNonce = 0
    /\ bottomUpMsgsMeta = <<>>
    /\ appliedBottomUpNonce = 0
    /\ appliedTopDownNonce = 0
    /\ balance = 0
    /\ curEpoch = 0
    /\ last = Outcome("Constructor", "system", OK, "", 0)
    /\ SAInit

\* ConstructSCAState
Init ==
    /\ subnets = EmptyMap
    /\ totalSubnets = 0
    /\ \E p \in PeriodParams : checkPeriod = ConstructPeriod(p)
    /\ checkpoints = EmptyMap
    /\ checkMsgsRegistry = EmptyMap
    /\ nonce = 0
    /\ bottomUpNonce = 0
    /\ bottomUpMsgsMeta = <<>>
    /\ appliedBottomUpNonce = MaxNonce
    /\ appliedTopDownNonce = 0
    /\ balance = 0
    /\ curEpoch = 0
    /\ last = Outcome("Constructor", "system", OK, "", 0)
    /\ SAInit

\* SCAState.GetSubnet
HasSubnet(id) == id \in DOMAIN subnets

\* Faulty variant: the checkpoint of the window that has closed
CurrWindowCheckpointOfClosed(epoch) ==
    LET chEpoch == CheckpointEpoch(epoch, checkPeriod)
    IN  IF chEpoch \in DOMAIN checkpoints
        THEN checkpoints[chEpoch]
        ELSE NewRawCheckpoint(NetworkName, chEpoch)
\* SCAState.CurrWindowCheckpoint
CurrWindowCheckpoint(epoch) ==
    LET chEpoch == WindowEpoch(epoch, checkPeriod)
    IN  IF chEpoch \in DOMAIN checkpoints
        THEN checkpoints[chEpoch]
        ELSE NewRawCheckpoint(NetworkName, chEpoch)

\* Faulty variant: the template of the window being populated
RawCheckpointOfCurrWindow(epoch) ==
    IF epoch < 0 THEN [ok |-> FALSE, err |-> "epoch can't be negative"]
    ELSE [ok |-> TRUE, ch |-> CurrWindowCheckpoint(epoch)]
\* RawCheckpoint: the checkpoint of the signing window of an epoch, or an
\* empty template of that window. The keys of the map are unsigned, so that
\* the negative window of the first period is never found
RawCheckpoint(epoch) ==
    IF epoch < 0 THEN [ok |-> FALSE, err |-> "epoch can't be negative"]
    ELSE LET chEpoch == CheckpointEpoch(epoch, checkPeriod)
         IN  [ok |-> TRUE,
              ch |-> IF chEpoch \in DOMAIN checkpoints
                     THEN checkpoints[chEpoch]
                     ELSE NewRawCheckpoint(NetworkName, chEpoch)]

\* Faulty variant: every checkpoint is stored under the first window
flushCheckpointAtZero(checks, ch) == Put(checks, 0, ch)
\* SCAState.flushCheckpoint on the map of checkpoints
flushCheckpoint(checks, ch) == Put(checks, ch.data.epoch, ch)

\* SCAState.flushSubnet on the map of subnets
flushSubnet(shs, sh) == Put(shs, sh.id, sh)

\* A call that aborts: the runtime discards every state change of the call
Abort(op, caller, code, msg) ==
    /\ last' = Outcome(op, caller, code, msg, 0)
    /\ UNCHANGED <<saState, scaState, balance, curEpoch>>

(***************************************************************************)
(* Register                                                                *)
(***************************************************************************)
\* Faulty variant: the minimum stake is enough
RegisterBelowMin(value) == value < MinSubnetStake
\* The transaction does not have enough funds to register the subnet
RegisterUnderStaked(value) == value <= MinSubnetStake

\* Faulty variant: a registered subnet may be registered again
NeverAlreadyRegistered(shid) == FALSE
\* The subnet with that ID already exists
AlreadyRegistered(shid) == HasSubnet(shid)

\* Faulty variant: the new subnet starts without the stake received
registerSubnetNoStake(shid, stake) ==
    [id |-> shid, parentID |-> NetworkName, stake |-> 0,
     topDownMsgs |-> <<>>, nonce |-> 0, circSupply |-> 0,
     status |-> Active, prevCheckpoint |-> EmptyCheckpoint]

\* Faulty variant: the new subnet numbers its messages from one
registerSubnetNonceOne(shid, stake) ==
    [id |-> shid, parentID |-> NetworkName, stake |-> stake,
     topDownMsgs |-> <<>>, nonce |-> 1, circSupply |-> 0,
     status |-> Active, prevCheckpoint |-> EmptyCheckpoint]

\* SCAState.registerSubnet
registerSubnet(shid, stake) ==
    [id |-> shid, parentID |-> NetworkName, stake |-> stake,
     topDownMsgs |-> <<>>, nonce |-> 0, circSupply |-> 0,
     status |-> Active, prevCheckpoint |-> EmptyCheckpoint]

\* The exit code and message of Register called by caller with value
RegisterResult(caller, value) ==
    LET shid == NewSubnetID(NetworkName, caller)
    IN  IF ~IsSubnetActor(caller)
        THEN <<SysErrForbidden, "caller type">>
        ELSE IF AlreadyRegistered(shid)
        THEN <<ErrIllegalArgument,
               "can't register a subnet that has been already registered">>
        ELSE IF RegisterUnderStaked(value)
        THEN <<ErrIllegalArgument,
               "call to register doesn't include enough funds to stake">>
        ELSE <<OK, "">>

Register(caller, value) ==
    LET shid == NewSubnetID(NetworkName, caller)
        res == RegisterResult(caller, value)
    IN  /\ totalSubnets < MaxRegistrations
        /\ IF res[1] # OK
           THEN Abort("Register", caller, res[1], res[2])
           ELSE /\ subnets' = flushSubnet(subnets, registerSubnet(shid, value))
                /\ totalSubnets' = totalSubnets + 1
                /\ balance' = balance + value
                /\ last' = Outcome("Register", caller, OK, "", 0)
                /\ UNCHANGED <<saState, checkPeriod, checkpoints, checkMsgsRegistry, nonce,
                               bottomUpNonce, bottomUpMsgsMeta, appliedBottomUpNonce,
                               appliedTopDownNonce, curEpoch>>

(***************************************************************************)
(* AddStake and ReleaseStake                                               *)
(***************************************************************************)
\* Subnet.addStake: the stake changes by value; a subnet whose stake is
\* below the minimum becomes Inactive
addStake(sh, value) ==
    LET stake == sh.stake + value
    IN  [sh EXCEPT !.stake = stake,
                   !.status = IF stake < MinSubnetStake THEN Inactive ELSE @]

\* Faulty variant: a call without funds is accepted
AddStakeAnyFunds(value) == FALSE
\* The transaction does not include funds
AddStakeNoFunds(value) == value <= 0

AddStake(caller, value) ==
    LET shid == NewSubnetID(NetworkName, caller)
    IN  IF ~IsSubnetActor(caller)
        THEN Abort("AddStake", caller, SysErrForbidden, "caller type")
        ELSE IF ~HasSubnet(shid)
        THEN Abort("AddStake", caller, ErrIllegalArgument,
                   "subnet for actor hasn't been registered yet")
        ELSE IF AddStakeNoFunds(value)
        THEN Abort("AddStake", caller, ErrIllegalArgument,
                   "no funds included in transaction")
        ELSE /\ subnets[shid].stake + value <= MaxStake
             /\ subnets' = flushSubnet(subnets, addStake(subnets[shid], value))
             /\ balance' = balance + value
             /\ last' = Outcome("AddStake", caller, OK, "", 0)
             /\ UNCHANGED <<saState, totalSubnets, checkPeriod, checkpoints, checkMsgsRegistry,
                            nonce, bottomUpNonce, bottomUpMsgsMeta,
                            appliedBottomUpNonce, appliedTopDownNonce, curEpoch>>

\* Faulty variant: a release of nothing is accepted
ReleaseAnyFunds(value) == FALSE
\* The params do not include funds
ReleaseNoFunds(value) == value <= 0

\* Faulty variant: the stake of the subnet is not checked
ReleaseNeverTooMuch(sh, value) == FALSE
\* The subnet actor is not allowed to release the amount of stake specified
ReleaseTooMuch(sh, value) == sh.stake < value

\* Faulty variant: the released value is added to the locked stake
ReleaseDeltaNotNegated(value) == value
\* Decrement locked stake
ReleaseDelta(value) == 0 - value

\* Faulty variant: the state transaction that ran before the failed send is
\* kept
ReleaseSendFailedKeepsState(caller, value) ==
    /\ subnets' = flushSubnet(subnets,
                      addStake(subnets[NewSubnetID(NetworkName, caller)],
                               ReleaseDelta(value)))
    /\ last' = Outcome("ReleaseStake", caller, ErrIllegalState,
                       "failed sending released stake to subnet actor", 0)
    /\ UNCHANGED <<saState, totalSubnets, checkPeriod, checkpoints, checkMsgsRegistry,
                   nonce, bottomUpNonce, bottomUpMsgsMeta, appliedBottomUpNonce,
                   appliedTopDownNonce, balance, curEpoch>>
\* The send of the released stake failed: the call aborts, and the state
\* transaction that ran before the send is rolled back with it
ReleaseSendFailed(caller, value) ==
    Abort("ReleaseStake", caller, ErrIllegalState,
          "failed sending released stake to subnet actor")

ReleaseStake(caller, value, sendOk) ==
    LET shid == NewSubnetID(NetworkName, caller)
    IN  IF ~IsSubnetActor(caller)
        THEN Abort("ReleaseStake", caller, SysErrForbidden, "caller type")
        ELSE IF ReleaseNoFunds(value)
        THEN Abort("ReleaseStake", caller, ErrIllegalArgument,
                   "no funds included in params")
        ELSE IF ~HasSubnet(shid)
        THEN Abort("ReleaseStake", caller, ErrIllegalArgument,
                   "subnet for for actor hasn't been registered yet")
        ELSE IF ReleaseTooMuch(subnets[shid], value)
        THEN Abort("ReleaseStake", caller, ErrIllegalState,
                   "subnet actor not allowed to release that many funds")
        ELSE IF balance < value
        THEN Abort("ReleaseStake", caller, ErrIllegalState,
                   "yikes! actor doesn't have enough balance to release these funds")
        ELSE IF ~sendOk
        THEN ReleaseSendFailed(caller, value)
        ELSE /\ subnets' = flushSubnet(subnets, addStake(subnets[shid], ReleaseDelta(value)))
             /\ balance' = balance - value
             /\ last' = Outcome("ReleaseStake", caller, OK, "", value)
             /\ UNCHANGED <<saState, totalSubnets, checkPeriod, checkpoints, checkMsgsRegistry,
                            nonce, bottomUpNonce, bottomUpMsgsMeta,
                            appliedBottomUpNonce, appliedTopDownNonce, curEpoch>>

(***************************************************************************)
(* CommitChildCheckpoint                                                   *)
(***************************************************************************)
\* Faulty variant: the source is not checked
SourceNeverMismatch(commit, caller) == FALSE
\* The checkpoint must come from the subnet actor at the end of its source
SourceMismatch(commit, caller) == Actor(commit.data.source) # caller

\* Faulty variant: an equal epoch is rejected too
EpochInPastOrEqual(prevCom, commit) == prevCom.data.epoch >= commit.data.epoch
\* The checkpoint being committed belongs to the past
EpochInPast(prevCom, commit) == prevCom.data.epoch > commit.data.epoch

\* Faulty variant: the link is not checked
PrevNeverInconsistent(prevCom, commit) == FALSE
\* The checkpoint being committed does not link to the previous one
PrevInconsistent(prevCom, commit) == Cid(prevCom) # PreviousCheck(commit)

\* Faulty variant: inactive subnets may commit
NotActiveOnlyKilled(sh) == sh.status = Killed
\* Only active subnets can commit checkpoints
NotActive(sh) == sh.status # Active

\* Faulty variant: the first commit is verified like the others
FirstCommitNever(prevCom) == FALSE
\* No previous checkpoint for the child: no additional verification
FirstCommit(prevCom) == IsEmpty(prevCom)

\* The exit code and message of CommitChildCheckpoint(params) called by caller
CommitResult(caller, bytes) ==
    IF ~IsSubnetActor(caller)
    THEN <<SysErrForbidden, "caller type">>
    ELSE IF ~UnmarshalOk(bytes)
    THEN <<ErrIllegalArgument, "error unmarshalling checkpoint in params">>
    ELSE LET commit == UnmarshalCBOR(bytes)
             shid == NewSubnetID(NetworkName, caller)
         IN  IF ~ActorOk(commit.data.source)
             THEN <<ErrIllegalArgument, "error getting checkpoint source">>
             ELSE IF SourceMismatch(commit, caller)
             THEN <<ErrIllegalArgument,
                    "checkpoint committed doesn't belong to source subnet">>
             ELSE IF ~HasSubnet(shid)
             THEN <<ErrIllegalArgument,
                    "subnet for for actor hasn't been registered yet">>
             ELSE IF NotActive(subnets[shid])
             THEN <<ErrIllegalState,
                    "can't commit a checkpoint for a subnet that is not active">>
             ELSE IF FirstCommit(subnets[shid].prevCheckpoint)
             THEN <<OK, "">>
             ELSE IF EpochInPast(subnets[shid].prevCheckpoint, commit)
             THEN <<ErrIllegalArgument,
                    "new checkpoint being committed belongs to the past">>
             ELSE IF PrevInconsistent(subnets[shid].prevCheckpoint, commit)
             THEN <<ErrIllegalArgument,
                    "new checkpoint not consistent with previous one">>
             ELSE <<OK, "">>

\* Number of child checkpoints committed so far
RECURSIVE CountChecks(_)
CountChecks(children) ==
    IF children = <<>> THEN 0
    ELSE Len(Head(children).checks) + CountChecks(Tail(children))

RECURSIVE SumOver(_, _)
SumOver(S, f) ==
    IF S = {} THEN 0 ELSE LET x == CHOOSE y \in S : TRUE IN f[x] + SumOver(S \ {x}, f)

TotalCommits ==
    SumOver(DOMAIN checkpoints,
            [e \in DOMAIN checkpoints |-> CountChecks(checkpoints[e].data.children)])

\* Faulty variant: the previous checkpoint of the subnet is not updated
CommitEffectsStalePrev(caller, commit, order) ==
    LET ch == CurrWindowCheckpoint(curEpoch)
        app == applyCheckMsgs(ch, commit, order)
    IN  /\ bottomUpNonce' = app.bu.nonce
        /\ bottomUpMsgsMeta' = app.bu.metas
        /\ checkMsgsRegistry' = app.reg
        /\ checkpoints' = flushCheckpoint(checkpoints, AddChild(app.ch, commit))
        /\ subnets' = subnets

\* Faulty variant: a child is listed once per window
CommitEffectsOneChild(caller, commit, order) ==
    LET shid == NewSubnetID(NetworkName, caller)
        ch == CurrWindowCheckpoint(curEpoch)
        app == applyCheckMsgs(ch, commit, order)
        one == IF HasChildCheck(app.ch, commit.data.source) > 0
               THEN app.ch ELSE AddChild(app.ch, commit)
    IN  /\ bottomUpNonce' = app.bu.nonce
        /\ bottomUpMsgsMeta' = app.bu.metas
        /\ checkMsgsRegistry' = app.reg
        /\ checkpoints' = flushCheckpoint(checkpoints, one)
        /\ subnets' = flushSubnet(subnets, [subnets[shid] EXCEPT !.prevCheckpoint = commit])

\* The state changes of a commit that passed the checks
CommitEffects(caller, commit, order) ==
    LET shid == NewSubnetID(NetworkName, caller)
        ch == CurrWindowCheckpoint(curEpoch)
        app == applyCheckMsgs(ch, commit, order)
    IN  /\ bottomUpNonce' = app.bu.nonce
        /\ bottomUpMsgsMeta' = app.bu.metas
        /\ checkMsgsRegistry' = app.reg
        /\ checkpoints' = flushCheckpoint(checkpoints, AddChild(app.ch, commit))
        /\ subnets' = flushSubnet(subnets, [subnets[shid] EXCEPT !.prevCheckpoint = commit])

CommitChildCheckpoint(caller, bytes) ==
    LET res == CommitResult(caller, bytes)
    IN  /\ TotalCommits < MaxCommits
        /\ IF res[1] # OK
           THEN Abort("CommitChildCheckpoint", caller, res[1], res[2])
           ELSE LET commit == UnmarshalCBOR(bytes)
                IN  /\ \E order \in Orders(DOMAIN AuxOf(commit)) :
                            CommitEffects(caller, commit, order)
                    /\ last' = Receipt("CommitChildCheckpoint", caller, OK, "", 0, bytes)
                    /\ UNCHANGED <<saState, totalSubnets, checkPeriod, nonce, appliedBottomUpNonce,
                                   appliedTopDownNonce, balance, curEpoch>>

(***************************************************************************)
(* Kill                                                                    *)
(***************************************************************************)
\* Faulty variant: the circulating supply is not checked
KillNeverForbidden(sh) == FALSE
\* Users haven't released their funds yet
KillForbidden(sh) == sh.circSupply > 0

\* Faulty variant: the minimum stake is sent back
KillRefundMinStake(sh) == MinSubnetStake
\* The total stake is sent to the subnet actor
KillRefund(sh) == sh.stake

Kill(caller, sendOk) ==
    LET shid == NewSubnetID(NetworkName, caller)
    IN  IF ~IsSubnetActor(caller)
        THEN Abort("Kill", caller, SysErrForbidden, "caller type")
        ELSE IF ~HasSubnet(shid)
        THEN Abort("Kill", caller, ErrIllegalArgument,
                   "subnet for for actor hasn't been registered yet")
        ELSE IF balance < subnets[shid].stake
        THEN Abort("Kill", caller, ErrIllegalState,
                   "yikes! actor doesn't have enough balance to release these funds")
        ELSE IF KillForbidden(subnets[shid])
        THEN Abort("Kill", caller, ErrForbidden,
                   "you can't kill a subnet where users haven't released their funds yet")
        ELSE IF ~sendOk
        THEN Abort("Kill", caller, ErrIllegalState,
                   "failed sending released stake to subnet actor")
        ELSE /\ subnets' = Delete(subnets, shid)
             /\ balance' = balance - KillRefund(subnets[shid])
             /\ last' = Outcome("Kill", caller, OK, "", KillRefund(subnets[shid]))
             /\ UNCHANGED <<saState, totalSubnets, checkPeriod, checkpoints, checkMsgsRegistry,
                            nonce, bottomUpNonce, bottomUpMsgsMeta,
                            appliedBottomUpNonce, appliedTopDownNonce, curEpoch>>

(***************************************************************************)
(* Fund and Release                                                        *)
(***************************************************************************)
\* Subnet.freezeFunds: the circulating supply of the subnet grows
freezeFunds(sh, value) == [sh EXCEPT !.circSupply = @ + value]

\* Subnet.addFundMsg: a top-down message to the caller, at the next nonce
addFundMsg(sh, caller, value) ==
    [sh EXCEPT !.topDownMsgs = Append(@, Msg(caller, caller, value, sh.nonce)),
               !.nonce = NextNonce(@)]

\* Faulty variant: a Fund without funds is accepted
FundAnyFunds(value) == FALSE
\* The transaction does not include funds
FundNoFunds(value) == value <= 0

\* The exit code and message of Fund(id) called by caller with value
FundResult(caller, id, value) ==
    IF ~IsAccountActor(caller)
    THEN <<SysErrForbidden, "caller type">>
    ELSE IF FundNoFunds(value)
    THEN <<ErrIllegalArgument, "no funds included in transaction">>
    ELSE IF ~HasSubnet(id)
    THEN <<ErrIllegalArgument, "subnet for for actor hasn't been registered yet">>
    ELSE <<OK, "">>

Fund(caller, id, value) ==
    IF FundResult(caller, id, value)[1] # OK
    THEN Abort("Fund", caller, FundResult(caller, id, value)[1],
               FundResult(caller, id, value)[2])
    ELSE /\ subnets[id].circSupply + value <= MaxCirc
         /\ subnets' = flushSubnet(subnets,
                           addFundMsg(freezeFunds(subnets[id], value), caller, value))
         /\ balance' = balance + value
         /\ last' = Outcome("Fund", caller, OK, "", 0)
         /\ UNCHANGED <<saState, totalSubnets, checkPeriod, checkpoints, checkMsgsRegistry,
                        nonce, bottomUpNonce, bottomUpMsgsMeta,
                        appliedBottomUpNonce, appliedTopDownNonce, curEpoch>>

\* SCAState.releaseMsg on acc = [ch, reg]: a release message for the caller,
\* numbered n, in the meta of the window checkpoint directed to the parent
releaseMsg(acc, caller, value, n) ==
    LET to == Parent(NetworkName)
        msg == Msg(BurntFundsActorAddr, caller, value, n)
        ind == CrossMsgMetaIndex(acc.ch, NetworkName, to)
    IN  IF ind > 0
        THEN LET old == acc.ch.data.crossMsgs[ind]
                 prev == acc.reg[old.msgsCid]
                 b == Bundle(Append(prev.msgs, msg), prev.metas)
             IN  [ch |-> [acc.ch EXCEPT !.data.crossMsgs[ind] =
                             [old EXCEPT !.msgsCid = CidOf(b), !.value = old.value + value]],
                  reg |-> Put(acc.reg, CidOf(b), b)]
        ELSE LET b == Bundle(<<msg>>, <<>>)
             IN  [ch |-> [acc.ch EXCEPT !.data.crossMsgs =
                             Append(@, [from |-> NetworkName, to |-> to,
                                        msgsCid |-> CidOf(b), nonce |-> 0,
                                        value |-> value])],
                  reg |-> Put(acc.reg, CidOf(b), b)]

\* Faulty variant: nothing is burnt
BurnNothing(value) == 0
\* The value received is sent to the burnt funds actor
BurnAmount(value) == value

\* The exit code and message of Release called by caller with value, when
\* the send to the burnt funds actor succeeds (sendOk) or fails
ReleaseResult(caller, value, sendOk) ==
    IF ~IsAccountActor(caller)
    THEN <<SysErrForbidden, "caller type">>
    ELSE IF value <= 0
    THEN <<ErrIllegalArgument, "no funds included in transaction">>
    ELSE IF ~sendOk
    THEN <<ErrIllegalState, "failed to send unsent reward to the burnt funds actor">>
    ELSE <<OK, "">>

\* The receipt of a successful Release tells the amount sent to the burnt
\* funds actor
Release(caller, value, sendOk) ==
    IF ReleaseResult(caller, value, sendOk)[1] # OK
    THEN Abort("Release", caller, ReleaseResult(caller, value, sendOk)[1],
               ReleaseResult(caller, value, sendOk)[2])
    ELSE LET rel == releaseMsg([ch |-> CurrWindowCheckpoint(curEpoch),
                                reg |-> checkMsgsRegistry], caller, value, nonce)
         IN  /\ nonce < MaxReleases
             /\ checkpoints' = flushCheckpoint(checkpoints, rel.ch)
             /\ checkMsgsRegistry' = rel.reg
             /\ nonce' = NextNonce(nonce)
             /\ balance' = balance + value - BurnAmount(value)
             /\ last' = Outcome("Release", caller, OK, "", BurnAmount(value))
             /\ UNCHANGED <<saState, subnets, totalSubnets, checkPeriod, bottomUpNonce,
                            bottomUpMsgsMeta, appliedBottomUpNonce,
                            appliedTopDownNonce, curEpoch>>

(***************************************************************************)
(* Consumption of the cross-net messages, in the order of their nonces     *)
(***************************************************************************)
MsgOutOfOrder == "the message being applied doesn't hold the subsequent nonce"

\* The exit code and message of apply_top_down for a message numbered n
ApplyTopDownResult(n) ==
    IF n # NextNonce(appliedTopDownNonce)
    THEN <<ErrIllegalState, MsgOutOfOrder>>
    ELSE <<OK, "">>

\* apply_top_down: a top-down message of the parent arrives with nonce n
ApplyTopDown(n) ==
    LET res == ApplyTopDownResult(n)
    IN  IF res[1] # OK
        THEN /\ last' = Receipt("ApplyTopDown", "system", res[1], res[2], 0, <<n>>)
             /\ UNCHANGED <<saState, scaState, balance, curEpoch>>
        ELSE /\ appliedTopDownNonce < MaxApplied
             /\ appliedTopDownNonce' = n
             /\ last' = Receipt("ApplyTopDown", "system", OK, "", 0, <<n>>)
             /\ UNCHANGED <<saState, subnets, totalSubnets, checkPeriod, checkpoints,
                            checkMsgsRegistry, nonce, bottomUpNonce, bottomUpMsgsMeta,
                            appliedBottomUpNonce, balance, curEpoch>>

\* The exit code and message of apply_bottom_up_meta for a meta numbered n
ApplyBottomUpResult(n) ==
    IF n # NextNonce(appliedBottomUpNonce)
    THEN <<ErrIllegalState, MsgOutOfOrder>>
    ELSE <<OK, "">>

\* apply_bottom_up_meta: the i-th meta of bottomUpMsgsMeta is consumed
ApplyBottomUpMeta(i) ==
    LET n == bottomUpMsgsMeta[i].nonce
        res == ApplyBottomUpResult(n)
    IN  IF res[1] # OK
        THEN /\ last' = Receipt("ApplyBottomUpMeta", "system", res[1], res[2], 0, <<n>>)
             /\ UNCHANGED <<saState, scaState, balance, curEpoch>>
        ELSE /\ appliedBottomUpNonce' = n
             /\ last' = Receipt("ApplyBottomUpMeta", "system", OK, "", 0, <<n>>)
             /\ UNCHANGED <<saState, subnets, totalSubnets, checkPeriod, checkpoints,
                            checkMsgsRegistry, nonce, bottomUpNonce, bottomUpMsgsMeta,
                            appliedTopDownNonce, balance, curEpoch>>

(***************************************************************************)
(* The chain: epochs pass, and calls arrive with inputs from small sets.   *)
(***************************************************************************)
Tick ==
    /\ curEpoch + EpochStep <= MaxEpoch
    /\ curEpoch' = curEpoch + EpochStep
    /\ last' = Outcome("Tick", "system", OK, "", 0)
    /\ UNCHANGED <<saState, scaState, balance>>

SubnetIDs == {NewSubnetID(NetworkName, a) : a \in SubnetActors}

\* Checkpoints a child may submit
SomeOtherCid == Cid(NewRawCheckpoint(<<"other">>, 7))
ChildEpochs == {10, 20}
ForeignSource == <<"root", "other", "sa1">>
Sibling == <<"root", "net2">>
Cousin == <<"root", "net2", "x">>
ChildMeta(from, to, k) ==
    [from |-> from, to |-> to,
     msgsCid |-> CidOf(Bundle(<<Msg("u", "v", k, 0)>>, <<>>)),
     nonce |-> 0, value |-> k]
NoMetas == <<>>
MetasA(src) == <<ChildMeta(src, NetworkName, 1), ChildMeta(src, Sibling, 1)>>
MetasB(src) ==
    <<ChildMeta(src, Sibling, 1), ChildMeta(src, Cousin, 1), ChildMeta(src, Sibling, 2)>>
MetasC(src) == <<ChildMeta(src, Parent(NetworkName), 1)>>
PrevChoices ==
    {NoPreviousCheck, SomeOtherCid} \cup {Cid(subnets[id].prevCheckpoint) : id \in DOMAIN subnets}

Checkpoint(src, e, pc, ml, sg) ==
    [data |-> [source |-> src, tipset |-> <<>>, epoch |-> e, prevCheckpoint |-> pc,
               children |-> <<>>, crossMsgs |-> ml],
     signature |-> sg]

Malformed == <<"garbage">>

\* Calls that exercise the validation of child checkpoints
ChainInputs ==
    { Checkpoint(src, e, pc, NoMetas, <<"sig">>) :
        src \in SubnetIDs \cup {ForeignSource}, e \in ChildEpochs, pc \in PrevChoices }

NextCommit ==
    \/ \E caller \in Callers, value \in {MinSubnetStake, MinSubnetStake + 1} :
           Register(caller, value)
    \/ \E caller \in Callers : ReleaseStake(caller, 2, TRUE)
    \/ \E caller \in Callers, c \in ChainInputs :
           CommitChildCheckpoint(caller, MarshalCBOR(c))
    \/ \E caller \in Callers : CommitChildCheckpoint(caller, Malformed)
    \/ \E caller \in Callers : Kill(caller, TRUE)
    \/ Tick

SpecCommit == Init /\ [][NextCommit]_vars

\* Calls that exercise the routing of the cross-net messages of checkpoints
XMsgInputs ==
    { Checkpoint(src, 10, pc, ml, <<"sig">>) :
        src \in SubnetIDs,
        pc \in {Cid(subnets[id].prevCheckpoint) : id \in DOMAIN subnets},
        ml \in UNION {{MetasA(x), MetasB(x), MetasC(x)} : x \in SubnetIDs} }

NextXMsg ==
    \/ \E caller \in SubnetActors : Register(caller, MinSubnetStake + 1)
    \/ \E caller \in Callers, c \in XMsgInputs :
           CommitChildCheckpoint(caller, MarshalCBOR(c))
    \/ \E caller \in Callers, value \in {0, 1}, sendOk \in BOOLEAN :
           Release(caller, value, sendOk)
    \/ Tick

SpecXMsg == Init /\ [][NextXMsg]_vars

\* Calls that exercise the registry: stake, funds and kill
\* Values sent with Register: below, at and above the minimum stake
RegisterValues ==
    {MinSubnetStake - 1, MinSubnetStake, MinSubnetStake + 1, 2 * MinSubnetStake}

NextRegistry ==
    \/ \E caller \in Callers, value \in RegisterValues : Register(caller, value)
    \/ \E caller \in Callers, value \in {0, 1, MinSubnetStake} : AddStake(caller, value)
    \/ \E caller \in Callers, value \in {-1, 0, 1, 2}, sendOk \in BOOLEAN :
           ReleaseStake(caller, value, sendOk)
    \/ \E caller \in Callers, sendOk \in BOOLEAN : Kill(caller, sendOk)
    \/ \E caller \in Callers, id \in SubnetIDs, value \in {0, 1} : Fund(caller, id, value)

SpecRegistry == Init /\ [][NextRegistry]_vars

\* Checkpoints that link to the previous checkpoint of their source
LinkedInputs ==
    { Checkpoint(id, EpochStep, Cid(subnets[id].prevCheckpoint), NoMetas, <<"sig">>) :
        id \in DOMAIN subnets }

\* Every method of the actor, with few inputs each
NextLifecycle ==
    \/ \E caller \in SubnetActors : Register(caller, MinSubnetStake + 1)
    \/ \E caller \in SubnetActors : AddStake(caller, 1)
    \/ \E caller \in SubnetActors : ReleaseStake(caller, MinSubnetStake, TRUE)
    \/ \E caller \in SubnetActors : Kill(caller, TRUE)
    \/ \E caller \in SubnetActors, c \in LinkedInputs :
           CommitChildCheckpoint(caller, MarshalCBOR(c))
    \/ \E caller \in Accounts, id \in SubnetIDs : Fund(caller, id, 1)
    \/ \E caller \in Accounts : Release(caller, 1, TRUE)

SpecLifecycle == Init /\ [][NextLifecycle]_vars

\* Calls that exercise the consumption of the cross-net messages
NextApply ==
    \/ \E caller \in SubnetActors : Register(caller, MinSubnetStake + 1)
    \/ \E caller \in Accounts, id \in SubnetIDs : Fund(caller, id, 1)
    \/ \E caller \in SubnetActors, c \in XMsgInputs :
           CommitChildCheckpoint(caller, MarshalCBOR(c))
    \/ \E i \in 1..Len(bottomUpMsgsMeta) : ApplyBottomUpMeta(i)
    \/ \E n \in 0..MaxApplied : ApplyTopDown(n)

SpecApply == Init /\ [][NextApply]_vars

\* Epochs pass within and across the windows
TickBy(d, max) ==
    /\ curEpoch + d <= max
    /\ curEpoch' = curEpoch + d
    /\ last' = Outcome("Tick", "system", OK, "", 0)
    /\ UNCHANGED <<saState, scaState, balance>>

\* Checkpoints of the registered subnets, signed by one miner or another
Signatures == {<<"sigA">>, <<"sigB">>}
SignedInputs ==
    { Checkpoint(id, e, pc, NoMetas, sg) :
        id \in DOMAIN subnets, e \in ChildEpochs,
        pc \in {NoPreviousCheck} \cup {Cid(subnets[x].prevCheckpoint) : x \in DOMAIN subnets},
        sg \in Signatures }

\* Calls that exercise the windows of the checkpoints
NextWindow ==
    \/ \E caller \in SubnetActors : Register(caller, MinSubnetStake + 1)
    \/ \E caller \in SubnetActors, c \in SignedInputs :
           CommitChildCheckpoint(caller, MarshalCBOR(c))
    \/ \E caller \in Accounts : Release(caller, 1, TRUE)
    \/ TickBy(WindowStep, MaxWindowEpoch)

SpecWindow == Init /\ [][NextWindow]_vars

(***************************************************************************)
(* Subnet actor: the votes of the miners for the checkpoint of a window    *)
(***************************************************************************)
\* SignatureThreshold, in hundredths
SignatureThreshold == 66

\* The subnet actor, the accounts that join it as miners, and its CheckPeriod
SubnetActorAddr == "sa1"
SAMiners == {"m1", "m2", "m3"}
SACheckPeriod == DefaultCheckpointPeriod

\* Faulty variant: every miner has to vote
majorityVoteOfAll(wch) == Len(wch.miners) >= Len(saMiners)
\* SubnetState.majorityVote: the quotient of the two lengths as floats, which
\* is infinite (or not a number, with no votes) when there are no miners
majorityVote(wch) ==
    IF Len(saMiners) = 0
    THEN Len(wch.miners) > 0
    ELSE 100 * Len(wch.miners) >= SignatureThreshold * Len(saMiners)

\* Faulty variant: the votes are kept
emptyWindowChecksKeepsVotes == windowChecks
\* SubnetState.emptyWindowChecks
emptyWindowChecks == EmptyMap

\* SubnetState.epochCheckpoint: the checkpoint for the current signing
\* window, if any
epochCheckpoint ==
    LET chEpoch == CheckpointEpoch(curEpoch, SACheckPeriod)
    IN  [found |-> chEpoch \in DOMAIN saCheckpoints, epoch |-> chEpoch]

\* SubnetState.prevCheckCid: the Cid of the previously committed checkpoint
prevCheckCid ==
    LET chEpoch == CheckpointEpoch(curEpoch, SACheckPeriod)
        ep == chEpoch - SACheckPeriod
    IN  IF ep < 0 THEN NoPreviousCheck
        ELSE IF ep \notin DOMAIN saCheckpoints THEN NoPreviousCheck
        ELSE Cid(saCheckpoints[ep])

\* SubnetState.GetWindowChecks and flushWindowChecks
GetWindowChecks(checkCid) ==
    IF checkCid \in DOMAIN windowChecks
    THEN [found |-> TRUE, wch |-> windowChecks[checkCid]]
    ELSE [found |-> FALSE, wch |-> [miners |-> <<>>]]
flushWindowChecks(checks, checkCid, w) == Put(checks, checkCid, w)

\* hasMiner and SubnetState.IsMiner
hasMiner(addr, miners) == \E i \in 1..Len(miners) : miners[i] = addr
\* Faulty variant: every account is taken for a miner
IsMinerAnyone(addr) == TRUE
IsMiner(addr) == hasMiner(addr, saMiners)

\* A miner joins the subnet
Join(addr) ==
    /\ saMiners' = IF hasMiner(addr, saMiners) THEN saMiners ELSE Append(saMiners, addr)
    /\ last' = Outcome("Join", addr, OK, "", 0)
    /\ UNCHANGED <<scaState, balance, curEpoch, saCheckpoints, windowChecks, forwarded>>

MsgNotMiner == "checkpoint not signed by a miner"
MsgWrongWindow == "checkpoint not of the signing window"
MsgCommitted == "checkpoint for the window has been committed already"
MsgAlreadyVoted == "miner has already voted the checkpoint"
MsgForwardFailed == "failed committing checkpoint in SCA"

\* The votes for the checkpoint submit with the vote of caller added
VotesWith(submit, caller) ==
    [miners |-> Append(GetWindowChecks(Cid(submit)).wch.miners, caller)]

\* The exit code and message of the vote of caller for the checkpoint in bytes
SubmitCheckpointResult(caller, bytes) ==
    IF ~UnmarshalOk(bytes)
    THEN <<ErrIllegalArgument, "error unmarshalling checkpoint in params">>
    ELSE LET submit == UnmarshalCBOR(bytes)
         IN  IF ~IsMiner(caller)
             THEN <<ErrIllegalArgument, MsgNotMiner>>
             ELSE IF submit.data.source # NewSubnetID(NetworkName, SubnetActorAddr)
             THEN <<ErrIllegalArgument, "checkpoint not of this subnet">>
             ELSE IF submit.data.epoch # epochCheckpoint.epoch
             THEN <<ErrIllegalArgument, MsgWrongWindow>>
             ELSE IF epochCheckpoint.found
             THEN <<ErrIllegalArgument, MsgCommitted>>
             ELSE IF PreviousCheck(submit) # prevCheckCid
             THEN <<ErrIllegalArgument, "previous checkpoint not consistent">>
             ELSE IF hasMiner(caller, GetWindowChecks(Cid(submit)).wch.miners)
             THEN <<ErrIllegalArgument, MsgAlreadyVoted>>
             ELSE IF majorityVote(VotesWith(submit, caller))
                     /\ CommitResult(SubnetActorAddr, bytes)[1] # OK
             THEN <<ErrIllegalState, MsgForwardFailed>>
             ELSE <<OK, "">>

\* The vote of a miner for a checkpoint: the vote is recorded, and with the
\* majority of the miners the checkpoint is stored, the votes are emptied and
\* the checkpoint is committed in the coordinator
SubmitCheckpoint(caller, bytes) ==
    LET res == SubmitCheckpointResult(caller, bytes)
    IN  IF res[1] # OK
        THEN Abort("SubmitCheckpoint", caller, res[1], res[2])
        ELSE LET submit == UnmarshalCBOR(bytes)
                 wch == VotesWith(submit, caller)
             IN  /\ last' = Receipt("SubmitCheckpoint", caller, OK, "", 0, bytes)
                 /\ IF majorityVote(wch)
                    THEN /\ saCheckpoints' = flushCheckpoint(saCheckpoints, submit)
                         /\ windowChecks' = emptyWindowChecks
                         /\ forwarded' = Append(forwarded, submit)
                         /\ \E order \in Orders(DOMAIN AuxOf(submit)) :
                                CommitEffects(SubnetActorAddr, submit, order)
                         /\ UNCHANGED <<totalSubnets, checkPeriod, nonce,
                                        appliedBottomUpNonce, appliedTopDownNonce,
                                        balance, curEpoch, saMiners>>
                    ELSE /\ windowChecks' = flushWindowChecks(windowChecks, Cid(submit), wch)
                         /\ UNCHANGED <<scaState, balance, curEpoch,
                                        saMiners, saCheckpoints, forwarded>>

\* The checkpoints that the miners vote for: two for each window
VoteEpochs == {0, DefaultCheckpointPeriod}
VoteInputs(caller) ==
    { Checkpoint(NewSubnetID(NetworkName, SubnetActorAddr), e, pc, ml, <<caller>>) :
        e \in VoteEpochs, pc \in {NoPreviousCheck, prevCheckCid},
        ml \in {NoMetas, MetasC(NewSubnetID(NetworkName, SubnetActorAddr))} }

\* Calls that exercise the votes of the miners
NextSA ==
    \/ \E addr \in SAMiners : Join(addr)
    \/ Register(SubnetActorAddr, MinSubnetStake + 1)
    \/ \E caller \in SAMiners \cup Accounts :
           \E c \in VoteInputs(caller) : SubmitCheckpoint(caller, MarshalCBOR(c))
    \/ TickBy(WindowStep, MaxWindowEpoch)

SpecSA == Init /\ [][NextSA]_vars

(***************************************************************************)
(* Properties of CommitChildCheckpoint                                     *)
(***************************************************************************)
MsgPast == "new checkpoint being committed belongs to the past"
MsgInconsistent == "new checkpoint not consistent with previous one"
MsgNotActive == "can't commit a checkpoint for a subnet that is not active"
MsgNotRegistered == "subnet for for actor hasn't been registered yet"
MsgSource == "checkpoint committed doesn't belong to source subnet"

Shid(caller) == NewSubnetID(NetworkName, caller)
CommitDone == last.op = "CommitChildCheckpoint" /\ last.code = OK
CommitStep == last'.op = "CommitChildCheckpoint" /\ vars' # vars
CommitOkStep == CommitStep /\ last'.code = OK
StateUnchanged == UNCHANGED <<scaState, balance, curEpoch>>

\* The entry of the subnet of an SA has a previous checkpoint
Chained(a) == HasSubnet(Shid(a)) /\ ~IsEmpty(subnets[Shid(a)].prevCheckpoint)

\* Number of checkpoints of the subnet actor a listed in checkpoint c
RECURSIVE ChecksBy(_, _)
ChecksBy(children, a) ==
    IF children = <<>> THEN 0
    ELSE (IF ActorOk(Head(children).source) /\ Actor(Head(children).source) = a
          THEN Len(Head(children).checks) ELSE 0) + ChecksBy(Tail(children), a)

\* The checks listed under a source in checkpoint c
ChecksOf(c, source) ==
    IF HasChildCheck(c, source) = 0 THEN <<>>
    ELSE c.data.children[HasChildCheck(c, source)].checks

\* C1: a commit of a child with a previous checkpoint that does not carry
\* the Cid of that previous checkpoint is rejected
C1_Rejects ==
    \A a \in SubnetActors, c \in ChainInputs :
        (Chained(a) /\ PreviousCheck(c) # Cid(subnets[Shid(a)].prevCheckpoint))
        => LET r == CommitResult(a, MarshalCBOR(c))
           IN  /\ r[1] # OK
               /\ subnets[Shid(a)].status = Active => r[1] = ErrIllegalArgument

\* C1: a commit of a child with a previous checkpoint succeeds only if it
\* carries the Cid of that previous checkpoint, and it becomes the previous
\* checkpoint of the next commit
C1_Step ==
    (CommitOkStep /\ Chained(last'.caller))
    => LET commit == UnmarshalCBOR(last'.arg)
           s == Shid(last'.caller)
       IN  /\ PreviousCheck(commit) = Cid(subnets[s].prevCheckpoint)
           /\ subnets'[s].prevCheckpoint = commit

C2_Rejects ==
    \A a \in SubnetActors, c \in ChainInputs :
        (Chained(a) /\ subnets[Shid(a)].status = Active /\ Actor(c.data.source) = a)
        => LET r == CommitResult(a, MarshalCBOR(c))
               prev == subnets[Shid(a)].prevCheckpoint
           IN  /\ c.data.epoch < prev.data.epoch => r = <<ErrIllegalArgument, MsgPast>>
               /\ c.data.epoch >= prev.data.epoch => r[2] # MsgPast

C2_Step ==
    (CommitOkStep /\ Chained(last'.caller))
    => LET s == Shid(last'.caller)
       IN  subnets'[s].prevCheckpoint.data.epoch >= subnets[s].prevCheckpoint.data.epoch

C3_Step ==
    CommitOkStep
    => LET w == WindowEpoch(curEpoch, checkPeriod)
           a == last'.caller
       IN  /\ w \in DOMAIN checkpoints'
           /\ ChecksBy(checkpoints'[w].data.children, a)
                = ChecksBy(CurrWindowCheckpoint(curEpoch).data.children, a) + 1

C3_Accepts ==
    \A a \in SubnetActors, c \in ChainInputs :
        ( /\ Chained(a)
          /\ subnets[Shid(a)].status = Active
          /\ Actor(c.data.source) = a
          /\ ChecksBy(CurrWindowCheckpoint(curEpoch).data.children, a) >= 1
          /\ c.data.epoch >= subnets[Shid(a)].prevCheckpoint.data.epoch
          /\ PreviousCheck(c) = Cid(subnets[Shid(a)].prevCheckpoint) )
        => CommitResult(a, MarshalCBOR(c))[1] = OK

C4_Accepts ==
    \A a \in SubnetActors, c \in ChainInputs :
        ( /\ HasSubnet(Shid(a))
          /\ IsEmpty(subnets[Shid(a)].prevCheckpoint)
          /\ subnets[Shid(a)].status = Active
          /\ Actor(c.data.source) = a )
        => CommitResult(a, MarshalCBOR(c)) = <<OK, "">>

C4_Step ==
    ( /\ CommitStep
      /\ HasSubnet(Shid(last'.caller))
      /\ IsEmpty(subnets[Shid(last'.caller)].prevCheckpoint) )
    => last'.msg \notin {MsgPast, MsgInconsistent}

C6_Step ==
    CommitStep
    => LET s == Shid(last'.caller)
       IN  /\ last'.code = OK => (HasSubnet(s) /\ subnets[s].status = Active)
           /\ (~HasSubnet(s) \/ subnets[s].status # Active)
                => (last'.code # OK /\ StateUnchanged)

C6_ActiveOnly == [][C6_Step]_vars

W6_InactiveRejected ==
    /\ last.op = "CommitChildCheckpoint"
    /\ last.code # OK
    /\ last.msg = MsgNotActive
    /\ HasSubnet(Shid(last.caller))
    /\ subnets[Shid(last.caller)].status = Inactive

\* C7: a commit whose source does not end in the calling subnet actor aborts
\* with IllegalArgument
C7_Rejects ==
    \A a \in SubnetActors, c \in ChainInputs :
        Actor(c.data.source) # a
        => CommitResult(a, MarshalCBOR(c)) = <<ErrIllegalArgument, MsgSource>>

\* C7: the source of a committed checkpoint ends in the caller, and the
\* previous checkpoint of a subnet changes only in a commit of its own SA
C7_Step ==
    /\ CommitOkStep => Actor(UnmarshalCBOR(last'.arg).data.source) = last'.caller
    /\ \A id \in DOMAIN subnets \cap DOMAIN subnets' :
           subnets'[id].prevCheckpoint # subnets[id].prevCheckpoint
           => /\ CommitOkStep
              /\ last'.caller = Actor(id)
              /\ Actor(subnets'[id].prevCheckpoint.data.source) = Actor(id)

ToHere(metas) == LET here(m) == m.to = NetworkName IN SelectSeq(metas, here)
ToDest(metas, to) == LET dest(m) == m.to = to IN SelectSeq(metas, dest)
Elsewhere(metas) == {metas[i].to : i \in 1..Len(metas)} \ {NetworkName}

\* The metas of checkpoint c for destination to
AggregatedFor(c, to) ==
    {i \in 1..Len(c.data.crossMsgs) : c.data.crossMsgs[i].to = to}

\* The metas aggregated for destination to in checkpoint c, with registry reg
BundledFor(c, reg, to) ==
    IF AggregatedFor(c, to) = {} THEN <<>>
    ELSE reg[c.data.crossMsgs[CHOOSE i \in AggregatedFor(c, to) : TRUE].msgsCid].metas

\* C8: a successful commit appends each meta for this subnet to
\* bottomUpMsgsMeta under the next bottomUpNonce, in order, and adds each
\* other meta to the one bundle the checkpoint of the current window keeps
\* for its destination; no meta is dropped and none goes both ways
C8_Step ==
    CommitOkStep
    => LET metas == CrossMsgs(UnmarshalCBOR(last'.arg))
           local == ToHere(metas)
           w == WindowEpoch(curEpoch, checkPeriod)
           old == CurrWindowCheckpoint(curEpoch)
           new == checkpoints'[w]
       IN  /\ bottomUpMsgsMeta'
                = bottomUpMsgsMeta \o
                  [i \in 1..Len(local) |->
                     [local[i] EXCEPT !.nonce = (bottomUpNonce + i - 1) % (MaxNonce + 1)]]
           /\ bottomUpNonce' = (bottomUpNonce + Len(local)) % (MaxNonce + 1)
           /\ \A to \in Elsewhere(metas) :
                /\ Cardinality(AggregatedFor(new, to)) = 1
                /\ BundledFor(new, checkMsgsRegistry', to)
                     = BundledFor(old, checkMsgsRegistry, to) \o ToDest(metas, to)
                /\ \A i \in AggregatedFor(new, to) :
                     /\ new.data.crossMsgs[i].from = NetworkName
                     /\ new.data.crossMsgs[i].msgsCid \in DOMAIN checkMsgsRegistry'
           /\ AggregatedFor(new, NetworkName) = {}
           /\ \A i \in 1..Len(new.data.crossMsgs) :
                new.data.crossMsgs[i].to \notin Elsewhere(metas)
                => /\ i <= Len(old.data.crossMsgs)
                   /\ new.data.crossMsgs[i] = old.data.crossMsgs[i]

C8_MetasRouted == [][C8_Step]_vars

W8_RoutedBothWays ==
    /\ CommitDone
    /\ \E i \in 1..Len(bottomUpMsgsMeta) : bottomUpMsgsMeta[i].nonce = 1
    /\ WindowEpoch(curEpoch, checkPeriod) \in DOMAIN checkpoints
    /\ Len(BundledFor(checkpoints[WindowEpoch(curEpoch, checkPeriod)],
                      checkMsgsRegistry, Sibling)) = 2

\* C9: every checkpoint of a window holds at most one aggregated meta per
\* destination
C9_OneMetaPerDestination ==
    \A e \in DOMAIN checkpoints :
        \A i, j \in 1..Len(checkpoints[e].data.crossMsgs) :
            checkpoints[e].data.crossMsgs[i].to = checkpoints[e].data.crossMsgs[j].to
            => i = j

W9_MergedDestination ==
    /\ CommitDone
    /\ \E e \in DOMAIN checkpoints :
         /\ Len(checkpoints[e].data.crossMsgs) = 2
         /\ Len(BundledFor(checkpoints[e], checkMsgsRegistry, Sibling)) = 3
         /\ Len(BundledFor(checkpoints[e], checkMsgsRegistry, Cousin)) = 1

(***************************************************************************)
(* Properties of Kill                                                      *)
(***************************************************************************)
KillStep == last'.op = "Kill" /\ vars' # vars

\* The SC holds the stake and the frozen funds of every subnet
BalanceCoversStake == \A id \in DOMAIN subnets : balance >= subnets[id].stake

C10_Step ==
    ( /\ KillStep
      /\ IsSubnetActor(last'.caller)
      /\ HasSubnet(Shid(last'.caller))
      /\ subnets[Shid(last'.caller)].circSupply > 0 )
    => (last'.code = ErrForbidden /\ StateUnchanged)

\* C10: a Kill by a registered subnet actor whose subnet has funds in
\* circulation aborts with Forbidden and changes nothing; the balance of
\* the SC always covers the stake, so the balance check before it never
\* fires
C10_KillWithFundsForbidden == [] BalanceCoversStake /\ [][C10_Step]_vars

W10_KillForbidden ==
    /\ last.op = "Kill"
    /\ last.code = ErrForbidden
    /\ HasSubnet(Shid(last.caller))
    /\ subnets[Shid(last.caller)].circSupply > 0
    /\ subnets[Shid(last.caller)].status = Inactive

(***************************************************************************)
(* Properties of the subnet registry                                       *)
(***************************************************************************)
MsgAlreadyRegistered == "can't register a subnet that has been already registered"
MsgUnderStaked == "call to register doesn't include enough funds to stake"
MsgNoFunds == "no funds included in transaction"

\* A call of the method op has been answered in this step
StepOf(op) == last'.op = op /\ vars' # vars
OkStepOf(op) == StepOf(op) /\ last'.code = OK
\* The calling subnet actor's own stake operation succeeded in this step
StakeStepOf(id) ==
    /\ last'.op \in {"AddStake", "ReleaseStake"}
    /\ last'.code = OK
    /\ Shid(last'.caller) = id

\* Entries other than id are the same before and after the step
OthersUnchanged(id) ==
    /\ DOMAIN subnets' \ {id} = DOMAIN subnets \ {id}
    /\ \A x \in DOMAIN subnets \ {id} : subnets'[x] = subnets[x]

\* C11: a successful Kill removes the entry of the caller and sends the
\* stake of the entry to the caller
C11_Step ==
    OkStepOf("Kill")
    => LET s == Shid(last'.caller)
       IN  /\ HasSubnet(s)
           /\ s \notin DOMAIN subnets'
           /\ OthersUnchanged(s)
           /\ last'.sent = subnets[s].stake
           /\ balance' = balance - subnets[s].stake

\* C11: the stake of an entry starts as the value received by Register and
\* changes only by the value of an AddStake or ReleaseStake of its actor
C11_Accounting ==
    /\ \A id \in DOMAIN subnets' \ DOMAIN subnets :
           subnets'[id].stake = balance' - balance
    /\ \A id \in DOMAIN subnets' \cap DOMAIN subnets :
           subnets'[id].stake - subnets[id].stake
               = IF StakeStepOf(id) THEN balance' - balance ELSE 0

\* C11: Kill returns exactly the registration value plus the values added
\* minus the values released, and removes the entry
C11_KillReturnsStake == [][C11_Step /\ C11_Accounting]_vars

W11_KillReturnsThreeMin ==
    /\ last.op = "Kill"
    /\ last.code = OK
    /\ last.sent = 3 * MinSubnetStake
    /\ ~HasSubnet(Shid(last.caller))

\* C12: an entry appears only by a successful Register of its own actor and
\* disappears only by a successful Kill of its own actor, with no funds in
\* circulation; the calls of an actor without entry fail and change nothing
C12_Step ==
    /\ \A id \in DOMAIN subnets' \ DOMAIN subnets :
           OkStepOf("Register") /\ Shid(last'.caller) = id
    /\ \A id \in DOMAIN subnets \ DOMAIN subnets' :
           /\ OkStepOf("Kill")
           /\ Shid(last'.caller) = id
           /\ subnets[id].circSupply = 0
    /\ ( /\ last'.op \in {"AddStake", "ReleaseStake", "Kill", "CommitChildCheckpoint"}
         /\ vars' # vars
         /\ ~HasSubnet(Shid(last'.caller)) )
       => (last'.code # OK /\ StateUnchanged)
    /\ (StepOf("Fund") \/ StepOf("Release")) => DOMAIN subnets' = DOMAIN subnets

C12_KilledStaysAbsent == [][C12_Step]_vars

W12_CallAfterKill ==
    /\ last.op \in {"AddStake", "ReleaseStake", "Kill", "CommitChildCheckpoint"}
    /\ last.code = ErrIllegalArgument
    /\ totalSubnets = MaxRegistrations
    /\ DOMAIN subnets = {}

\* C13: Register by a subnet actor that has an entry aborts with
\* IllegalArgument and changes nothing
C13_Step ==
    ( /\ StepOf("Register")
      /\ IsSubnetActor(last'.caller)
      /\ HasSubnet(Shid(last'.caller)) )
    => (last'.code = ErrIllegalArgument /\ StateUnchanged)

C13_Rejects ==
    \A a \in SubnetActors, v \in RegisterValues :
        HasSubnet(Shid(a))
        => RegisterResult(a, v) = <<ErrIllegalArgument, MsgAlreadyRegistered>>

C13_NoDoubleRegister == [] C13_Rejects /\ [][C13_Step]_vars

W13_SecondRegister ==
    /\ last.op = "Register"
    /\ last.code = ErrIllegalArgument
    /\ last.msg = MsgAlreadyRegistered
    /\ HasSubnet(Shid(last.caller))
    /\ subnets[Shid(last.caller)].circSupply > 0
    /\ subnets[Shid(last.caller)].status = Inactive

\* C14: Register with a value not above the minimum stake aborts with
\* IllegalArgument
C14_Rejects ==
    \A a \in SubnetActors, v \in RegisterValues :
        v <= MinSubnetStake => RegisterResult(a, v)[1] = ErrIllegalArgument

\* C14: an entry created by Register has a stake above the minimum stake
C14_Step ==
    OkStepOf("Register")
    => /\ balance' - balance > MinSubnetStake
       /\ \A id \in DOMAIN subnets' \ DOMAIN subnets :
              subnets'[id].stake > MinSubnetStake

C15_MinStakeRegisters ==
    \A a \in SubnetActors, v \in RegisterValues :
        ~HasSubnet(Shid(a))
        => (RegisterResult(a, v)[1] = OK <=> v >= MinSubnetStake)

\* C16: a successful Register creates the entry of the caller, Active, with
\* the value received as stake, no messages, no funds in circulation and the
\* empty checkpoint, and counts it
C16_Step ==
    OkStepOf("Register")
    => LET s == Shid(last'.caller)
       IN  /\ ~HasSubnet(s)
           /\ DOMAIN subnets' = DOMAIN subnets \cup {s}
           /\ OthersUnchanged(s)
           /\ subnets'[s] = [id |-> NewSubnetID(NetworkName, last'.caller),
                             parentID |-> NetworkName,
                             stake |-> balance' - balance,
                             topDownMsgs |-> <<>>, nonce |-> 0, circSupply |-> 0,
                             status |-> Active,
                             prevCheckpoint |-> EmptyCheckpoint]
           /\ totalSubnets' = totalSubnets + 1

\* C16: totalSubnets never decreases, and changes only in a successful
\* Register
C16_Count ==
    /\ totalSubnets' >= totalSubnets
    /\ totalSubnets' # totalSubnets => OkStepOf("Register")
    /\ OkStepOf("Kill") => totalSubnets' = totalSubnets

C17_Step ==
    StepOf("AddStake")
    => LET s == Shid(last'.caller)
       IN  /\ last'.code = OK
                => /\ HasSubnet(s)
                   /\ balance' - balance > 0
                   /\ DOMAIN subnets' = DOMAIN subnets
                   /\ subnets'[s].stake = subnets[s].stake + (balance' - balance)
                   /\ OthersUnchanged(s)
           /\ last'.code # OK => StateUnchanged
           /\ (IsSubnetActor(last'.caller) /\ last'.code # OK)
                => /\ last'.code = ErrIllegalArgument
                   /\ (~HasSubnet(s) \/ last'.msg = MsgNoFunds)
           /\ (IsSubnetActor(last'.caller) /\ ~HasSubnet(s))
                => last'.code = ErrIllegalArgument

C17_AddStake == [][C17_Step]_vars

W17_StakeAdded ==
    /\ last.op = "AddStake"
    /\ last.code = OK
    /\ subnets[Shid(last.caller)].stake = MaxStake
    /\ balance > MaxStake

\* C18: a successful ReleaseStake has a positive value, an entry of the
\* caller with at least that stake and an actor balance of at least the
\* value; it takes the value from the stake and sends it to the caller; a
\* call that fails changes nothing
C18_Step ==
    StepOf("ReleaseStake")
    => LET s == Shid(last'.caller)
       IN  /\ last'.code = OK
                => /\ last'.sent > 0
                   /\ HasSubnet(s)
                   /\ subnets[s].stake >= last'.sent
                   /\ balance >= last'.sent
                   /\ DOMAIN subnets' = DOMAIN subnets
                   /\ subnets'[s].stake = subnets[s].stake - last'.sent
                   /\ balance' = balance - last'.sent
                   /\ OthersUnchanged(s)
           /\ last'.code # OK => (StateUnchanged /\ last'.sent = 0)

C18_ReleaseStake == [][C18_Step]_vars

W18_AllReleased ==
    /\ last.op = "ReleaseStake"
    /\ last.code = OK
    /\ last.sent = MinSubnetStake
    /\ subnets[Shid(last.caller)].stake = 0

\* C19: the stake and the circulating supply of every entry are never
\* negative
C19_NonNegative ==
    \A id \in DOMAIN subnets : subnets[id].stake >= 0 /\ subnets[id].circSupply >= 0

W19_NothingStaked ==
    \E id \in DOMAIN subnets :
        /\ subnets[id].stake = 0
        /\ subnets[id].circSupply = MaxCirc
        /\ ~IsEmpty(subnets[id].prevCheckpoint)

\* The stake and the circulating supply of all the entries in S
RECURSIVE Locked(_)
Locked(S) ==
    IF S = {} THEN 0
    ELSE LET id == CHOOSE x \in S : TRUE
         IN  subnets[id].stake + subnets[id].circSupply + Locked(S \ {id})

\* C20: the balance of the actor covers the stake and the circulating supply
\* of every entry, and of all the entries together
C20_BalanceCoversLocked ==
    /\ \A id \in DOMAIN subnets : subnets[id].stake + subnets[id].circSupply <= balance
    /\ Locked(DOMAIN subnets) <= balance

W20_TwoFundedSubnets ==
    /\ Cardinality(DOMAIN subnets) = 2
    /\ \A id \in DOMAIN subnets : subnets[id].circSupply > 0 /\ subnets[id].stake > 0
    /\ Locked(DOMAIN subnets) = balance
    /\ last.op = "ReleaseStake"
    /\ last.code = OK

(***************************************************************************)
(* Properties of the status, the funds and the cross-net messages          *)
(***************************************************************************)
\* An entry below the minimum stake is not Active, and none of its
\* checkpoints would be committed
C21_Inv ==
    \A id \in DOMAIN subnets :
        subnets[id].stake < MinSubnetStake
        => /\ subnets[id].status # Active
           /\ \A c \in LinkedInputs :
                  c.data.source = id
                  => CommitResult(Actor(id), MarshalCBOR(c))[1] # OK

\* The status after Register, ReleaseStake and AddStake
C21_Step ==
    /\ OkStepOf("Register") => subnets'[Shid(last'.caller)].status = Active
    /\ \A id \in DOMAIN subnets :
           StakeStepOf(id)
           => /\ subnets'[id].stake < MinSubnetStake
                    => subnets'[id].status = Inactive
              /\ ( /\ last'.op = "AddStake"
                   /\ subnets'[id].stake >= MinSubnetStake )
                    => subnets'[id].status = Active
    /\ ( /\ CommitStep
         /\ HasSubnet(Shid(last'.caller))
         /\ subnets[Shid(last'.caller)].stake < MinSubnetStake )
       => (last'.code # OK /\ StateUnchanged)

\* C21 as claimed: an entry is Active after Register, Inactive once
\* ReleaseStake brings its stake below the minimum stake and Active again
\* once AddStake brings the stake back to the minimum; an entry below the
\* minimum stake is never Active and its commits are rejected
C21_StatusFollowsStake == [] C21_Inv /\ [][C21_Step]_vars

\* The entries that a step funded: their circulating supply or their
\* top-down nonce changed
Funded ==
    { id \in DOMAIN subnets \cap DOMAIN subnets' :
        \/ subnets'[id].circSupply # subnets[id].circSupply
        \/ subnets'[id].nonce # subnets[id].nonce }

C22_Step ==
    StepOf("Fund")
    => /\ DOMAIN subnets' = DOMAIN subnets
       /\ \A id \in Funded : subnets[id].status = Active
       /\ last'.code = OK => Funded # {}
       /\ last'.code # OK => (Funded = {} /\ StateUnchanged)

\* C22 as claimed: Fund succeeds only for a subnet that has an entry and is
\* Active; a Fund that names an absent or a non-Active subnet is rejected and
\* leaves every circulating supply and top-down nonce as it was
C22_FundActiveOnly == [][C22_Step]_vars

\* The entry of id after a Fund of value v by caller
Funds(id, caller, v) ==
    [subnets[id] EXCEPT !.circSupply = @ + v,
                        !.topDownMsgs = Append(@, Msg(caller, caller, v, subnets[id].nonce)),
                        !.nonce = @ + 1]

C23_Step ==
    OkStepOf("Fund")
    => \E id \in DOMAIN subnets :
           LET v == balance' - balance
           IN  /\ v > 0
               /\ DOMAIN subnets' = DOMAIN subnets
               /\ OthersUnchanged(id)
               /\ subnets'[id] = Funds(id, last'.caller, v)
               /\ Len(subnets'[id].topDownMsgs) = Len(subnets[id].topDownMsgs) + 1
               /\ subnets'[id].topDownMsgs[subnets[id].nonce + 1].value = v
               /\ subnets'[id].topDownMsgs[subnets[id].nonce + 1].nonce = subnets[id].nonce
               /\ subnets[id].nonce = 0
                    => (subnets'[id].circSupply = v /\ Len(subnets'[id].topDownMsgs) = 1)

C23_Rejects ==
    \A a \in Accounts, id \in SubnetIDs, v \in {-1, 0} :
        FundResult(a, id, v) = <<ErrIllegalArgument, MsgNoFunds>>

\* C23: a successful Fund of value v > 0 adds v to the circulating supply of
\* the subnet, appends one top-down message of value v to the caller at the
\* index of the nonce the subnet had, and adds one to that nonce; a Fund
\* without a positive value aborts with IllegalArgument
C23_FundEffects == [] C23_Rejects /\ [][C23_Step]_vars

W23_SecondFund ==
    /\ last.op = "Fund"
    /\ last.code = OK
    /\ \E id \in DOMAIN subnets :
           /\ subnets[id].nonce = 2
           /\ subnets[id].circSupply = 2
           /\ subnets[id].topDownMsgs[2] = Msg(last.caller, last.caller, 1, 1)

\* The top-down messages of every entry are numbered 0 .. nonce - 1, in order
C24_GapFree ==
    \A id \in DOMAIN subnets :
        /\ Len(subnets[id].topDownMsgs) = subnets[id].nonce
        /\ \A i \in 1..Len(subnets[id].topDownMsgs) :
               subnets[id].topDownMsgs[i].nonce = i - 1

\* The nonce of an entry does not decrease, and the messages it holds stay
\* where they are
C24_Step ==
    \A id \in DOMAIN subnets \cap DOMAIN subnets' :
        /\ subnets'[id].nonce >= subnets[id].nonce
        /\ Len(subnets'[id].topDownMsgs) >= Len(subnets[id].topDownMsgs)
        /\ SubSeq(subnets'[id].topDownMsgs, 1, Len(subnets[id].topDownMsgs))
               = subnets[id].topDownMsgs

\* C24: for every entry the top-down nonce never decreases and the top-down
\* messages are gap-free: they are the messages numbered 0 .. nonce - 1, each
\* numbered once, never reordered and never removed
C24_NonceGapFree == [] C24_GapFree /\ [][C24_Step]_vars

W24_TwoMessages ==
    /\ last.op = "ReleaseStake"
    /\ last.code = OK
    /\ \E id \in DOMAIN subnets :
           /\ subnets[id].nonce = 2
           /\ Len(subnets[id].topDownMsgs) = 2
           /\ subnets[id].topDownMsgs[1].nonce = 0
           /\ subnets[id].topDownMsgs[2].nonce = 1
    /\ \E id \in DOMAIN subnets : subnets[id].nonce = 1

C26_Step ==
    /\ StepOf("ApplyTopDown")
         => IF last'.arg[1] = NextNonce(appliedTopDownNonce)
            THEN last'.code = OK /\ appliedTopDownNonce' = NextNonce(appliedTopDownNonce)
            ELSE last'.code # OK /\ StateUnchanged
    /\ StepOf("ApplyBottomUpMeta")
         => IF last'.arg[1] = NextNonce(appliedBottomUpNonce)
            THEN last'.code = OK /\ appliedBottomUpNonce' = NextNonce(appliedBottomUpNonce)
            ELSE last'.code # OK /\ StateUnchanged
    /\ ~(StepOf("ApplyTopDown") \/ StepOf("ApplyBottomUpMeta"))
         => UNCHANGED <<appliedTopDownNonce, appliedBottomUpNonce>>

\* With the applied nonces of the construction, the messages numbered 0 are
\* the first to be consumed
C26_FromZero ==
    /\ appliedTopDownNonce = 0 => ApplyTopDownResult(0)[1] = OK
    /\ appliedBottomUpNonce = MaxNonce => ApplyBottomUpResult(0)[1] = OK

MsgBurnFailed == "failed to send unsent reward to the burnt funds actor"

\* The meta of the window checkpoint c that goes to the parent, or 0
ReleaseIndex(c) == CrossMsgMetaIndex(c, NetworkName, Parent(NetworkName))

C27_Step ==
    StepOf("Release")
    => /\ last'.code = OK
            => LET v == last'.sent
                   w == WindowEpoch(curEpoch, checkPeriod)
                   old == CurrWindowCheckpoint(curEpoch)
                   new == checkpoints'[w]
                   had == ReleaseIndex(old) > 0
                   oldMeta == old.data.crossMsgs[ReleaseIndex(old)]
                   newMeta == new.data.crossMsgs[ReleaseIndex(new)]
               IN  /\ v > 0
                   /\ balance' = balance
                   /\ ReleaseIndex(new) > 0
                   /\ newMeta.value = (IF had THEN oldMeta.value ELSE 0) + v
                   /\ checkMsgsRegistry'[newMeta.msgsCid].msgs
                        = Append(IF had THEN checkMsgsRegistry[oldMeta.msgsCid].msgs
                                 ELSE <<>>,
                                 Msg(BurntFundsActorAddr, last'.caller, v, nonce))
                   /\ Len(new.data.crossMsgs)
                        = Len(old.data.crossMsgs) + (IF had THEN 0 ELSE 1)
                   /\ nonce' = nonce + 1
                   /\ UNCHANGED <<subnets, bottomUpNonce, bottomUpMsgsMeta>>
       /\ last'.code # OK => (StateUnchanged /\ last'.sent = 0)

C27_Rejects ==
    \A a \in Accounts, sendOk \in BOOLEAN :
        /\ \A v \in {-1, 0} :
               ReleaseResult(a, v, sendOk) = <<ErrIllegalArgument, MsgNoFunds>>
        /\ \A v \in {1, 2} :
               ReleaseResult(a, v, sendOk)
                 = IF sendOk THEN <<OK, "">> ELSE <<ErrIllegalState, MsgBurnFailed>>

\* C27: a successful Release has a value v > 0, sends v to the burnt funds
\* actor and records in the checkpoint of the current window one release
\* message of value v for the caller, numbered with the next nonce; when the
\* send fails the call aborts with IllegalState and records nothing; without
\* a positive value it aborts with IllegalArgument whatever the send would do
C27_ReleaseBurns == [] C27_Rejects /\ [][C27_Step]_vars

W27_ReleasedAfterCommit ==
    /\ last.op = "Release"
    /\ last.code = OK
    /\ last.sent = 1
    /\ nonce = 1
    /\ LET c == CurrWindowCheckpoint(curEpoch)
       IN  /\ ReleaseIndex(c) > 0
           /\ c.data.crossMsgs[ReleaseIndex(c)].value = 2

\* The bottom-up metas consumed so far: the first k of bottomUpMsgsMeta
Consumed ==
    IF appliedBottomUpNonce = MaxNonce THEN 0 ELSE appliedBottomUpNonce + 1

\* The value of the first k bottom-up metas that come from the subnet id
RECURSIVE ReleasedBy(_, _)
ReleasedBy(id, k) ==
    IF k = 0 THEN 0
    ELSE (IF bottomUpMsgsMeta[k].from = id THEN bottomUpMsgsMeta[k].value ELSE 0)
         + ReleasedBy(id, k - 1)

\* C28 as claimed: the circulating supply of a subnet is what was funded to
\* it less what the bottom-up metas from it that the actor has consumed
\* release: after a Fund of v and the consumption of a release meta of value
\* v it is back at its value before the Fund; it is never negative
C28_FundReleaseRoundTrip ==
    \A id \in DOMAIN subnets :
        /\ subnets[id].circSupply >= 0
        /\ ReleasedBy(id, Consumed) <= SumValues(subnets[id].topDownMsgs)
             => subnets[id].circSupply
                  = SumValues(subnets[id].topDownMsgs) - ReleasedBy(id, Consumed)

MsgSendFailed == "failed sending released stake to subnet actor"

\* C29: every call either completes or aborts without any effect: after an
\* abort, the one for a failed send at the end of ReleaseStake or Kill
\* included, the state and the balance of the actor are those before the call
\* and nothing has been sent
C29_Step ==
    (vars' # vars /\ last'.code # OK) => (StateUnchanged /\ last'.sent = 0)

MsgTooMuch == "subnet actor not allowed to release that many funds"
MsgShortfall == "yikes! actor doesn't have enough balance to release these funds"

\* The aborts for an input that violates a precondition of the method
PreconditionMsgs ==
    {MsgAlreadyRegistered, MsgUnderStaked, MsgNoFunds, "no funds included in params",
     MsgNotRegistered, "subnet for actor hasn't been registered yet",
     MsgTooMuch, MsgNotActive, MsgPast, MsgInconsistent, MsgSource,
     "error unmarshalling checkpoint in params", "error getting checkpoint source"}

C30_Step ==
    (vars' # vars /\ last'.code \notin {OK, SysErrForbidden})
    => /\ last'.code \in {ErrIllegalArgument, ErrIllegalState, ErrForbidden}
       /\ last'.msg \in PreconditionMsgs => last'.code = ErrIllegalArgument
       /\ last'.code = ErrIllegalState
            => last'.msg \in {MsgShortfall, MsgSendFailed, MsgBurnFailed}
       /\ last'.code = ErrForbidden
            => /\ last'.op = "Kill"
               /\ HasSubnet(Shid(last'.caller))
               /\ subnets[Shid(last'.caller)].circSupply > 0

\* C30 as claimed: an abort for an input that violates a precondition
\* (duplicate registration, under-staking, no positive value, unknown subnet,
\* ReleaseStake of more than the stake, commit of a subnet that is not
\* Active, checkpoint of a past epoch, broken chaining) carries
\* IllegalArgument; IllegalState is only for balance shortfalls and failed
\* sends, and Forbidden only for Kill with funds in circulation
C30_CodeFollowsKind == [][C30_Step]_vars

(***************************************************************************)
(* Properties of the checkpoints and their windows                         *)
(***************************************************************************)
\* The checkpoint c signed with sg
Signed(c, sg) == [c EXCEPT !.signature = sg]

\* C34: the Cid of a checkpoint is the same whatever its signature, two
\* checkpoints with the same data are Equals, and the verdict of a commit is
\* the same whatever the signature of the checkpoint submitted and of the
\* previous checkpoint that the submitted one links to
C34_CidIgnoresSignature ==
    /\ \A c \in SignedInputs, sg \in Signatures \cup {<<>>} :
           /\ Cid(Signed(c, sg)) = Cid(c)
           /\ Equals(Signed(c, sg), c)
           /\ \A a \in SubnetActors :
                  CommitResult(a, MarshalCBOR(Signed(c, sg)))
                    = CommitResult(a, MarshalCBOR(c))
    /\ \A id \in DOMAIN subnets, e \in ChildEpochs, sg \in Signatures \cup {<<>>} :
           LET prev == subnets[id].prevCheckpoint
               c == Checkpoint(id, e, Cid(Signed(prev, sg)), NoMetas, <<"sigA">>)
           IN  /\ Cid(Signed(prev, sg)) = Cid(prev)
               /\ ~PrevInconsistent(prev, c)

W34_ChainedOtherSignature ==
    /\ CommitDone
    /\ UnmarshalCBOR(last.arg).signature = <<"sigB">>
    /\ subnets[Shid(last.caller)].prevCheckpoint.signature = <<"sigB">>
    /\ PreviousCheck(UnmarshalCBOR(last.arg))
         = Cid(Checkpoint(Shid(last.caller), 10, NoPreviousCheck, NoMetas, <<"sigA">>))
    /\ Len(ChecksOf(CurrWindowCheckpoint(curEpoch), Shid(last.caller))) = 2

C35_RoundTrip ==
    \A c \in SignedInputs :
        /\ UnmarshalOk(MarshalCBOR(c))
        /\ UnmarshalCBOR(MarshalCBOR(c)) = c
        /\ Cid(UnmarshalCBOR(MarshalCBOR(c))) = Cid(c)
C35_Step ==
    \A c \in SignedInputs :
        CommitOkStep /\ last'.arg = MarshalCBOR(c) =>
            /\ subnets'[Shid(last'.caller)].prevCheckpoint = c
            /\ Cid(subnets'[Shid(last'.caller)].prevCheckpoint) = Cid(c)
OneEntryPerSource(c) ==
    \A i, j \in 1..Len(c.data.children) :
        c.data.children[i].source = c.data.children[j].source => i = j

\* C36: the window checkpoints have at most one children entry per source,
\* and adding a child through AddChildChecks keeps it so: the Cid of the
\* child comes after the Cids that the entry of its source already has
C36_GroupedBySource ==
    \A k \in DOMAIN checkpoints :
        /\ OneEntryPerSource(checkpoints[k])
        /\ \A c \in SignedInputs :
               LET added == AddChildChecks(checkpoints[k], <<ChildCheck(c)>>)
               IN  /\ OneEntryPerSource(added)
                   /\ ChecksOf(added, c.data.source)
                        = Append(ChecksOf(checkpoints[k], c.data.source), Cid(c))

\* The epochs that RawCheckpoint is asked about
Epochs == 0..MaxWindowEpoch

\* C37: at every epoch e >= 0 the window being populated is (e / p) * p and
\* the signing window is ((e / p) - 1) * p, exactly one period earlier;
\* RawCheckpoint fails for a negative epoch, and returns the empty template
\* of the network for a signing window that has no checkpoint, as in every
\* epoch of the first period
C37_SigningWindow ==
    /\ \A e \in Epochs :
           LET raw == RawCheckpoint(e)
               cur == CurrWindowCheckpoint(e)
           IN  /\ raw.ok
               /\ cur.data.epoch = (e \div checkPeriod) * checkPeriod
               /\ raw.ch.data.epoch = ((e \div checkPeriod) - 1) * checkPeriod
               /\ cur.data.epoch - raw.ch.data.epoch = checkPeriod
               /\ raw.ch.data.epoch \notin DOMAIN checkpoints =>
                      /\ raw.ch = NewRawCheckpoint(NetworkName, raw.ch.data.epoch)
                      /\ raw.ch.data.children = <<>> /\ raw.ch.data.crossMsgs = <<>>
               /\ raw.ch.data.source = NetworkName
               /\ e < checkPeriod =>
                      raw.ch = NewRawCheckpoint(NetworkName, 0 - checkPeriod)
    /\ \A e \in Epochs \ {0} : ~RawCheckpoint(0 - e).ok

W37_SigningStored ==
    /\ curEpoch >= 2 * checkPeriod
    /\ CheckpointEpoch(curEpoch, checkPeriod) \in DOMAIN checkpoints
    /\ RawCheckpoint(curEpoch).ch.data.children # <<>>
    /\ RawCheckpoint(curEpoch).ch # CurrWindowCheckpoint(curEpoch)
    /\ RawCheckpoint(curEpoch - 2 * checkPeriod).ch
         = NewRawCheckpoint(NetworkName, 0 - checkPeriod)

\* The window w has closed at the current epoch
Closed(w) == curEpoch >= w + checkPeriod

C38_Step ==
    /\ \A w \in DOMAIN checkpoints \cup DOMAIN checkpoints' :
           Closed(w) =>
               /\ w \in DOMAIN checkpoints /\ w \in DOMAIN checkpoints'
               /\ checkpoints'[w] = checkpoints[w]
    /\ WindowEpoch(curEpoch', checkPeriod) = WindowEpoch(curEpoch, checkPeriod) =>
           RawCheckpoint(curEpoch)' = RawCheckpoint(curEpoch)

\* C38: no step changes, adds or removes the checkpoint of a window that has
\* closed, and the checkpoint that RawCheckpoint returns stays the same
\* through all the epochs of a window
C38_ClosedWindowFrozen == [][C38_Step]_vars

W38_WrittenAfterClosed ==
    /\ last.op \in {"CommitChildCheckpoint", "Release"} /\ last.code = OK
    /\ CheckpointEpoch(curEpoch, checkPeriod) \in DOMAIN checkpoints
    /\ WindowEpoch(curEpoch, checkPeriod) \in DOMAIN checkpoints
    /\ curEpoch % checkPeriod # 0
    /\ RawCheckpoint(curEpoch).ch.data.children # <<>>

C40_Step ==
    CommitOkStep =>
        LET s == Shid(last'.caller)
            k == WindowEpoch(curEpoch, checkPeriod)
        IN  /\ s \in DOMAIN subnets /\ s \in DOMAIN subnets'
            /\ subnets'[s] = [subnets[s] EXCEPT
                                 !.prevCheckpoint = subnets'[s].prevCheckpoint]
            /\ OthersUnchanged(s)
            /\ k \in DOMAIN checkpoints'
            /\ \A w \in (DOMAIN checkpoints \cup DOMAIN checkpoints') \ {k} :
                   /\ w \in DOMAIN checkpoints /\ w \in DOMAIN checkpoints'
                   /\ checkpoints'[w] = checkpoints[w]

C40_Keys ==
    \A k \in DOMAIN checkpoints :
        /\ checkpoints[k].data.epoch = k
        /\ k >= 0 /\ k % checkPeriod = 0
        /\ checkpoints[k].data.source = NetworkName

\* C40: a successful commit of a child changes, of the subnets, only the
\* previous checkpoint of that child, and, of the checkpoints, only the one
\* of the window of the current epoch; every checkpoint is stored under its
\* own epoch, a multiple of the period, and has the network as its source
C40_CommitFrame == []C40_Keys /\ [][C40_Step]_vars

W40_SecondWindowCommit ==
    /\ CommitDone
    /\ curEpoch >= checkPeriod
    /\ Cardinality(DOMAIN subnets) = 2
    /\ Cardinality(DOMAIN checkpoints) = 2
    /\ \A x \in DOMAIN subnets : ~IsEmpty(subnets[x].prevCheckpoint)

C39_Step ==
    CommitOkStep =>
        LET commit == UnmarshalCBOR(last'.arg)
            k == WindowEpoch(curEpoch, checkPeriod)
        IN  \A order \in Orders(DOMAIN AuxOf(commit)) :
                LET app == applyCheckMsgs(CurrWindowCheckpoint(curEpoch), commit, order)
                IN  /\ checkpoints'[k].data.crossMsgs = app.ch.data.crossMsgs
                    /\ Cid(checkpoints'[k]) = Cid(AddChild(app.ch, commit))
                    /\ checkMsgsRegistry' = app.reg
                    /\ bottomUpMsgsMeta' = app.bu.metas

\* C39: the state after a commit is a function of the state before it and of
\* the checkpoint committed: the cross-net metas written to the window
\* checkpoint, and the Cid of that checkpoint, are the same in whatever order
\* the destinations of the auxiliary map are ranged over
C39_OrderIndependent == [][C39_Step]_vars

(***************************************************************************)
(* Properties of the votes of the subnet actor                             *)
(***************************************************************************)
\* The vote of this step was accepted; the checkpoint voted for, and the
\* miners that had voted for its Cid before
VoteOkStep == OkStepOf("SubmitCheckpoint")
Voted == UnmarshalCBOR(last'.arg)
VotersBefore == GetWindowChecks(Cid(Voted)).wch.miners
DistinctVoters == {VotersBefore[i] : i \in 1..Len(VotersBefore)} \cup {last'.caller}

\* The checkpoint voted for in this step is committed in the coordinator
ForwardStep ==
    /\ VoteOkStep
    /\ forwarded' = Append(forwarded, Voted)
    /\ subnets'[Shid(SubnetActorAddr)].prevCheckpoint = Voted

C31_Step ==
    VoteOkStep =>
        /\ ForwardStep \/ forwarded' = forwarded
        /\ ForwardStep <=>
               100 * Cardinality(DistinctVoters) >= SignatureThreshold * Len(saMiners)
        /\ Len(saMiners) = 3 => (ForwardStep <=> Cardinality(DistinctVoters) >= 2)

\* C31: an accepted vote forwards the checkpoint to the coordinator exactly
\* when the distinct miners that have voted for its Cid, this vote included,
\* are at least the signature threshold of the miners; of three miners the
\* first vote does not forward and the second does
C31_ForwardAtThreshold == [][C31_Step]_vars

W31_SecondOfThree ==
    /\ last.op = "SubmitCheckpoint" /\ last.code = OK
    /\ Len(saMiners) = 3
    /\ Len(forwarded) = 1
    /\ forwarded[1] = UnmarshalCBOR(last.arg)
    /\ subnets[Shid(SubnetActorAddr)].prevCheckpoint = forwarded[1]
    /\ windowChecks = EmptyMap

\* The checkpoints sent to the coordinator are of different windows
C32_OncePerWindow ==
    \A i, j \in 1..Len(forwarded) :
        forwarded[i].data.epoch = forwarded[j].data.epoch => i = j

C32_Step ==
    /\ ForwardStep =>
           /\ windowChecks' = EmptyMap
           /\ Len(forwarded') = Len(forwarded) + 1
           /\ Voted.data.epoch \notin DOMAIN saCheckpoints
           /\ saCheckpoints'[Voted.data.epoch] = Voted
    /\ StepOf("SubmitCheckpoint") /\ epochCheckpoint.found =>
           /\ forwarded' = forwarded
           /\ subnets' = subnets /\ checkpoints' = checkpoints

C33_Voters ==
    \A c \in DOMAIN windowChecks :
        LET ms == windowChecks[c].miners
        IN  /\ \A i, j \in 1..Len(ms) : ms[i] = ms[j] => i = j
            /\ \A i \in 1..Len(ms) : hasMiner(ms[i], saMiners)

C33_Step ==
    /\ StepOf("SubmitCheckpoint") /\ last'.msg = MsgAlreadyVoted =>
           /\ windowChecks' = windowChecks
           /\ forwarded' = forwarded /\ subnets' = subnets
    /\ ForwardStep /\ Len(saMiners) >= 2 =>
           /\ last'.caller \notin {VotersBefore[i] : i \in 1..Len(VotersBefore)}
           /\ Len(VotersBefore) >= 1

\* C33: the voters stored for a Cid are miners of the subnet and none of
\* them is stored twice; a second vote of a miner for the same checkpoint
\* changes nothing, so that in a subnet of two or more miners no checkpoint
\* is forwarded on the votes of a single miner
C33_VotesDeduplicated == []C33_Voters /\ [][C33_Step]_vars

W33_RepeatedVote ==
    /\ last.op = "SubmitCheckpoint" /\ last.msg = MsgAlreadyVoted
    /\ Len(saMiners) >= 2
    /\ forwarded = <<>>
    /\ \E c \in DOMAIN windowChecks : windowChecks[c].miners = <<last.caller>>

====
